---- MODULE Spec2Model ----
(***************************************************************************)
(* The `query` command of bendctl (cli/src/cmds/queries/query.rs): one     *)
(* invocation of QueryCommand::exec, from the argument string to the value *)
(* returned to the caller, with the writer, the standard output, the       *)
(* source resolution, the statement splitter, the endpoint and the         *)
(* per-statement HTTP round trips.                                         *)
(*                                                                         *)
(* Text is a sequence of one-character strings, so that split(';'),        *)
(* trim() and starts_with() are computed on characters.                    *)
(***************************************************************************)
EXTENDS Integers, Sequences, FiniteSets, TLC

VARIABLES
    pc,          \* position of the invocation in exec / local_exec_match
    args,        \* the command line: [wordsOk, profile, query]
    env,         \* what the machine holds: [pathExists, status]
    writer,      \* lines written through the Writer, in order
    stdout,      \* lines printed with println!, in order
    ret,         \* value returned by exec to its caller
    stages,      \* the stages of local_exec_match that have run, in order
    sourceKind,  \* which branch of the source resolution was taken
    queries,     \* the resolved source text
    endpoint,    \* the (client, url) pair built by build_query_endpoint
    stmts,       \* the statements the loop iterates over
    idx,         \* index in stmts of the statement the loop is at
    posts,       \* the bodies POSTed so far, in order
    inflight,    \* indices of the statements whose POST awaits its response
    outcomes,    \* outcome of each statement whose round trip has ended
    targets,     \* the (client, url) each POST was sent with, in order
    received     \* the decoded response of each ended round trip, if any

vars == <<pc, args, env, writer, stdout, ret, stages, sourceKind, queries,
          endpoint, stmts, idx, posts, inflight, outcomes, targets,
          received>>

----------------------------------------------------------------------------
(* Bounds *)

\* longest source text fed to the splitter on its own
MaxLen == 4

----------------------------------------------------------------------------
(* Text *)

Chars == {"a", "b", " ", ";"}

\* char::is_whitespace, as used by str::trim
IsWhitespace(c) == c = " "

\* elem.trim().is_empty()
TrimIsEmpty(s) == \A i \in 1..Len(s) : IsWhitespace(s[i])

\* str::starts_with
StartsWith(s, p) == Len(s) >= Len(p) /\ SubSeq(s, 1, Len(p)) = p

Http == <<"h", "t", "t", "p", ":", "/", "/">>
Https == <<"h", "t", "t", "p", "s", ":", "/", "/">>

\* str::split(';'): the segments between separators, empty ones included;
\* a text with k separators has k + 1 segments
RECURSIVE SplitSegments(_, _)
SplitSegments(s, cur) ==
    IF s = <<>> THEN <<cur>>
    ELSE IF Head(s) = ";" THEN <<cur>> \o SplitSegments(Tail(s), <<>>)
    ELSE SplitSegments(Tail(s), Append(cur, Head(s)))

\* .filter(|elem| !elem.trim().is_empty())
RECURSIVE FilterNonBlank(_)
FilterNonBlank(segs) ==
    IF segs = <<>> THEN <<>>
    ELSE IF TrimIsEmpty(Head(segs)) THEN FilterNonBlank(Tail(segs))
    ELSE <<Head(segs)>> \o FilterNonBlank(Tail(segs))

\* the map as a bug would have it: the separator is not put back
TerminateBare(segs) == segs

\* .map(|elem| format!("{};", elem))
Terminate(segs) == [k \in 1..Len(segs) |-> Append(segs[k], ";")]

\* the statement splitter as a bug would have it: blank segments are kept
SplitKeepBlank(text) == Terminate(SplitSegments(text, <<>>))

\* queries.split(';').filter(..).map(..).collect::<Vec<String>>()
Split(text) == Terminate(FilterNonBlank(SplitSegments(text, <<>>)))

----------------------------------------------------------------------------
(* The command line and the machine *)

\* Option<T>: None is <<>>, Some(v) is <<v>>
None == <<>>
Some(v) == <<v>>

LitThree == <<"a", ";", "b", ";", "c">>
LitBlank == <<"a", ";", " ", ";", "b", ";">>
UrlArg == Http \o <<"u">>
UrlsArg == Https \o <<"u">>

\* the values of the positional argument the model runs with
QueryArgs == {LitThree, LitBlank, UrlArg, UrlsArg}

\* the values of --profile the model runs with
ProfileArgs == {"local", "cluster", "remote"}

\* bytes of the file a path argument names; xFF is not valid UTF-8
FileBytes == <<"f", ";", "xFF", ";">>
\* body served at a URL argument
UrlBody == <<"u", ";">>
\* what standard input holds
StdinText == <<"s", ";", "t">>

\* String::from_utf8_lossy: an invalid byte becomes U+FFFD
FromUtf8Lossy(bytes) ==
    [i \in 1..Len(bytes) |-> IF bytes[i] = "xFF" THEN "U+FFFD" ELSE bytes[i]]

\* one local query configuration: the fields build_query_endpoint reads
QueryConfig(host, port, key, cert) ==
    [http_handler_host |-> host, http_handler_port |-> port,
     api_tls_server_key |-> key, api_tls_server_cert |-> cert]

Plain == QueryConfig("127.0.0.1", 8081, "", "")
KeyOnly == QueryConfig("127.0.0.1", 8081, "key.pem", "")
KeyAndCert == QueryConfig("127.0.0.1", 8081, "key.pem", "cert.pem")
NamedHost == QueryConfig("localhost", 8081, "", "")
Other == QueryConfig("0.0.0.0", 8000, "", "")
V6Host == QueryConfig("[::1]", 8081, "", "")

\* the lists of local query configurations the model runs with
QueryConfigLists ==
    {<<>>, <<Plain>>, <<KeyOnly>>, <<KeyAndCert>>, <<NamedHost>>,
     <<V6Host>>, <<Plain, KeyAndCert>>, <<Plain, Other>>}

\* the local status as the command reads it: what has_local_configs()
\* answers and what get_local_query_configs() returns; Status lies outside
\* this file, so every pairing of the two answers is run
Statuses ==
    [hasLocalConfigs : BOOLEAN, queryConfigs : QueryConfigLists]

\* status.has_local_configs()
HasLocalConfigs(status) == status.hasLocalConfigs

\* status.get_local_query_configs()
GetLocalQueryConfigs(status) == status.queryConfigs

----------------------------------------------------------------------------
(* The writer *)

OkLine(i, what) == [kind |-> "ok", stmt |-> i, what |-> what]
ErrLine(i, what) == [kind |-> "err", stmt |-> i, what |-> what]
PlainLine(i, what) == [kind |-> "line", stmt |-> i, what |-> what]

----------------------------------------------------------------------------
(* Argument parsing *)

\* the values clap accepts for --profile when a bug lists the unimplemented
\* cluster profile too
PossibleValuesWithCluster == {"local", "cluster"}

\* .possible_values(&["local"])
PossibleValues == {"local"}

\* .default_value("local")
ProfileValue(a) == IF a.profile = None THEN "local" ELSE a.profile[1]

\* try_get_matches_from: the profile must be a possible value and the
\* required positional argument must be present
ClapMatches(a) ==
    /\ ProfileValue(a) \in PossibleValues
    /\ a.query # None

\* ClusterProfile::from_str, as value_of_t calls it
ParseProfile(v) ==
    IF v = "local" THEN "Local"
    ELSE IF v = "cluster" THEN "Cluster"
    ELSE "Err"

----------------------------------------------------------------------------
(* Source resolution *)

\* the branch of the source resolution taken when a bug tests the URL
\* prefix before the filesystem
ResolveKindUrlFirst(q, pathExists) ==
    IF q = None THEN "stdin"
    ELSE IF StartsWith(q[1], Http) \/ StartsWith(q[1], Https) THEN "url"
    ELSE IF pathExists THEN "file"
    ELSE "literal"

\* match args.value_of("query"): which branch supplies the text
ResolveKind(q, pathExists) ==
    IF q = None THEN "stdin"
    ELSE IF pathExists THEN "file"
    ELSE IF StartsWith(q[1], Http) \/ StartsWith(q[1], Https) THEN "url"
    ELSE "literal"

\* the text each branch yields when its read succeeds
SourceText(kind, q) ==
    CASE kind = "file" -> FromUtf8Lossy(FileBytes)
      [] kind = "url" -> UrlBody
      [] kind = "literal" -> q[1]
      [] kind = "stdin" -> StdinText

\* the branches that perform a read which can fail
ReadsExternally(kind) == kind \in {"file", "url", "stdin"}

----------------------------------------------------------------------------
(* Precheck *)

\* the precheck as a bug would have it: the configuration test is skipped
LocalExecPrecheckSkipped(readOk, status) ==
    IF ~readOk THEN "Err" ELSE "Ok"

\* local_exec_precheck: Status::read, then has_local_configs
LocalExecPrecheck(readOk, status) ==
    IF ~readOk THEN "Err"
    ELSE IF ~HasLocalConfigs(status) THEN "Err"
    ELSE "Ok"

----------------------------------------------------------------------------
(* Endpoint *)

\* the hosts of the model that are IPv4 address literals
Ipv4Hosts == {"127.0.0.1", "0.0.0.0"}

\* "host:port".parse::<SocketAddr>() succeeds on an IPv4 literal or a
\* bracketed IPv6 literal only; a host name is not resolved
IsIpLiteral(host) == host \in Ipv4Hosts \cup {"[::1]"}

\* address.ip() as format! displays it: an IPv6 address without brackets
AddressIp(host) == IF host = "[::1]" THEN "::1" ELSE host

\* format!("http://{}:{}/v1/statement", address.ip(), address.port())
StatementUrl(host, port) ==
    [scheme |-> "http", host |-> host, port |-> port, path |-> "/v1/statement"]

\* build_query_endpoint as a bug would have it: the last local query
\* configuration is taken, not the first
BuildQueryEndpointLast(status) ==
    LET query_configs == GetLocalQueryConfigs(status) IN
    IF query_configs = <<>>
    THEN [tag |-> "Panic", what |-> "cannot find query configs"]
    ELSE LET query == query_configs[Len(query_configs)] IN
         IF query.api_tls_server_key = "" \/ query.api_tls_server_cert = ""
         THEN IF IsIpLiteral(query.http_handler_host)
              THEN [tag |-> "Ok", client |-> "client",
                    url |-> StatementUrl(AddressIp(query.http_handler_host),
                                         query.http_handler_port)]
              ELSE [tag |-> "Panic", what |-> "cannot build query socket address"]
         ELSE [tag |-> "Panic", what |-> "not yet implemented"]

\* build_query_endpoint: Ok((client, url)), or the panic of an expect / todo!
BuildQueryEndpoint(status) ==
    LET query_configs == GetLocalQueryConfigs(status) IN
    IF query_configs = <<>>
    THEN [tag |-> "Panic", what |-> "cannot find query configs"]
    ELSE LET query == query_configs[1] IN
         IF query.api_tls_server_key = "" \/ query.api_tls_server_cert = ""
         THEN IF IsIpLiteral(query.http_handler_host)
              THEN [tag |-> "Ok", client |-> "client",
                    url |-> StatementUrl(AddressIp(query.http_handler_host),
                                         query.http_handler_port)]
              ELSE [tag |-> "Panic", what |-> "cannot build query socket address"]
         ELSE [tag |-> "Panic", what |-> "not yet implemented"]

\* the statements of the for loop when a bug iterates them last to first
StatementQueueReversed(text) ==
    LET q == Split(text) IN [k \in 1..Len(q) |-> q[Len(q) + 1 - k]]

\* the statements the for loop iterates over, in iteration order
StatementQueue(text) == Split(text)

----------------------------------------------------------------------------
(* One invocation of the command *)

Init ==
    /\ pc = "start"
    /\ args \in [wordsOk : BOOLEAN,
                 profile : {None} \cup {Some(v) : v \in ProfileArgs},
                 query : {None} \cup {Some(q) : q \in QueryArgs}]
    /\ env \in [pathExists : BOOLEAN, status : Statuses]
    /\ writer = <<>>
    /\ stdout = <<>>
    /\ ret = "none"
    /\ stages = <<>>
    /\ sourceKind = "none"
    /\ queries = <<>>
    /\ endpoint = None
    /\ stmts = <<>>
    /\ idx = 0
    /\ posts = <<>>
    /\ inflight = {}
    /\ outcomes = <<>>
    /\ targets = <<>>
    /\ received = <<>>

\* exec and exec_match, up to the call of local_exec_match
Exec ==
    /\ UNCHANGED <<targets, received>>
    /\ pc = "start"
    /\ UNCHANGED <<args, env, stages, sourceKind, queries, endpoint, stmts,
                   idx, posts, inflight, outcomes>>
    /\ IF ~args.wordsOk
       THEN /\ writer' = Append(writer, ErrLine(0, "cannot parse words"))
            /\ ret' = "Ok"
            /\ pc' = "returned"
            /\ UNCHANGED stdout
       ELSE IF ~ClapMatches(args)
       THEN /\ stdout' = Append(stdout, "Cannot get subcommand matches")
            /\ ret' = "Ok"
            /\ pc' = "returned"
            /\ UNCHANGED writer
       ELSE CASE ParseProfile(ProfileValue(args)) = "Local" ->
                   /\ pc' = "precheck"
                   /\ UNCHANGED <<writer, stdout, ret>>
              [] ParseProfile(ProfileValue(args)) = "Cluster" ->
                   /\ pc' = "panicked"
                   /\ UNCHANGED <<writer, stdout, ret>>
              [] ParseProfile(ProfileValue(args)) = "Err" ->
                   /\ writer' = Append(writer, ErrLine(0,
                          "currently profile only support cluster or local"))
                   /\ ret' = "Ok"
                   /\ pc' = "returned"
                   /\ UNCHANGED stdout

\* local_exec_match: the precheck, its report, and the second Status::read
Precheck ==
    /\ UNCHANGED <<targets, received>>
    /\ pc = "precheck"
    /\ UNCHANGED <<args, env, stdout, sourceKind, queries, endpoint, stmts,
                   idx, posts, inflight, outcomes>>
    /\ stages' = Append(stages, "precheck")
    /\ \E readOk \in BOOLEAN, rereadOk \in BOOLEAN :
         IF LocalExecPrecheck(readOk, env.status) = "Err"
         THEN /\ writer' = Append(writer,
                     ErrLine(0, "Query command precheck failed"))
              /\ ret' = "Ok"
              /\ pc' = "returned"
         ELSE /\ writer' = Append(writer, OkLine(0, "Query precheck passed!"))
              /\ IF rereadOk
                 THEN pc' = "resolve" /\ UNCHANGED ret
                 ELSE pc' = "returned" /\ ret' = "Err"

\* local_exec_match: the query text from file, URL, literal or stdin
ResolveSource ==
    /\ UNCHANGED <<targets, received>>
    /\ pc = "resolve"
    /\ UNCHANGED <<args, env, writer, stdout, ret, endpoint, stmts, idx,
                   posts, inflight, outcomes>>
    /\ LET kind == ResolveKind(args.query, env.pathExists) IN
       /\ stages' = Append(stages, "resolve")
       /\ sourceKind' = kind
       /\ \E readOk \in BOOLEAN :
            IF ReadsExternally(kind) /\ ~readOk
            THEN pc' = "panicked" /\ UNCHANGED queries
            ELSE pc' = "endpoint" /\ queries' = SourceText(kind, args.query)

\* local_exec_match: build_query_endpoint and the collect of the statements
ResolveEndpoint ==
    /\ UNCHANGED <<targets, received>>
    /\ pc = "endpoint"
    /\ UNCHANGED <<args, env, stdout, sourceKind, queries, posts, inflight,
                   outcomes>>
    /\ stages' = Append(stages, "endpoint")
    /\ LET res == BuildQueryEndpoint(env.status) IN
       CASE res.tag = "Ok" ->
              /\ endpoint' = Some([client |-> res.client, url |-> res.url])
              /\ stmts' = StatementQueue(queries)
              /\ idx' = 1
              /\ pc' = "loop"
              /\ UNCHANGED <<writer, ret>>
         [] res.tag = "Panic" ->
              /\ pc' = "panicked"
              /\ UNCHANGED <<writer, ret, endpoint, stmts, idx>>
         [] res.tag = "Err" ->
              /\ writer' = Append(writer,
                     ErrLine(0, "Query command error: cannot parse query url"))
              /\ ret' = "Ok"
              /\ pc' = "returned"
              /\ UNCHANGED <<endpoint, stmts, idx>>

----------------------------------------------------------------------------
(* The per-statement loop *)

\* progress values a response may carry
Progress == [read_rows |-> 1000000, read_bytes |-> 2000000]

\* milliseconds a round trip may take, as start.elapsed().as_millis() gives
ElapsedValues == {0, 2000}

\* the decoded responses the service may give: stats present or absent
Responses ==
    [stats : {None, Some(Progress)}, elapsedMs : ElapsedValues]

\* count as f64 / (elapsed.as_millis() as f64 / 1000f64): the quotient per
\* second, and not a finite number when the divisor is 0.0 (inf or NaN)
PerSecond(count, elapsedMs) ==
    IF elapsedMs = 0
    THEN [finite |-> FALSE, value |-> 0]
    ELSE [finite |-> TRUE, value |-> (count * 1000) \div elapsedMs]

\* the throughput line: the counters and the two rates
StatsLine(i, resp) ==
    [kind |-> "ok", stmt |-> i, what |-> "stats",
     read_rows |-> resp.stats[1].read_rows,
     read_bytes |-> resp.stats[1].read_bytes,
     rows_per_sec |-> PerSecond(resp.stats[1].read_rows, resp.elapsedMs),
     bytes_per_sec |-> PerSecond(resp.stats[1].read_bytes, resp.elapsedMs)]

\* query_writer, Ok arm: the table, then the stats line if stats are there
RenderLines(i, resp) ==
    <<PlainLine(i, "table")>>
        \o (IF resp.stats # None THEN <<StatsLine(i, resp)>> ELSE <<>>)

\* query_writer, Err arm: one error line
QueryWriterErrLines(i) ==
    <<ErrLine(i, "Query command error: cannot execute query")>>

\* the value query_writer returns, whatever execute_query returned
QueryWriterReturn(executed) == "Ok"

\* local_exec_match, the if let Err(e) around query_writer
CallerLines(i, returned) ==
    IF returned = "Err"
    THEN <<ErrLine(i, "query execution error")>>
    ELSE <<>>

\* the target of a POST when a bug derives it again for each statement,
\* from the local query configuration of the statement's rank
PostTargetRebuilt(ep, status, i) ==
    LET cfgs == GetLocalQueryConfigs(status)
        cfg == cfgs[((i - 1) % Len(cfgs)) + 1]
    IN [client |-> "client",
        url |-> StatementUrl(AddressIp(cfg.http_handler_host),
                             cfg.http_handler_port)]

\* query_writer(&cli, url.as_str(), ..): the pair bound by the if let is
\* what every iteration passes on
PostTarget(ep, status, i) == ep[1]

\* the loop body up to the send of the POST, awaiting the response
Submit ==
    /\ pc = "loop"
    /\ idx <= Len(stmts)
    /\ writer' = Append(writer, OkLine(idx, "Execute query"))
    /\ posts' = Append(posts, stmts[idx])
    /\ targets' = Append(targets, PostTarget(endpoint, env.status, idx))
    /\ UNCHANGED received
    /\ inflight' = inflight \cup {idx}
    /\ pc' = "await"
    /\ UNCHANGED <<args, env, stdout, ret, stages, sourceKind, queries,
                   endpoint, stmts, idx, outcomes>>

\* send() fails: the expect in execute_query panics
SendFails ==
    /\ pc = "await"
    /\ inflight' = inflight \ {idx}
    /\ outcomes' = Append(outcomes, "network")
    /\ received' = Append(received, None)
    /\ UNCHANGED targets
    /\ pc' = "panicked"
    /\ UNCHANGED <<args, env, writer, stdout, ret, stages, sourceKind,
                   queries, endpoint, stmts, idx, posts>>

\* a decode failure handled as a bug would: unwrapped like the send
DecodeFailsPanics ==
    /\ pc = "await"
    /\ inflight' = inflight \ {idx}
    /\ outcomes' = Append(outcomes, "decode")
    /\ received' = Append(received, None)
    /\ UNCHANGED targets
    /\ pc' = "panicked"
    /\ UNCHANGED <<args, env, writer, stdout, ret, stages, sourceKind,
                   queries, endpoint, stmts, idx, posts>>

\* json() fails: execute_query returns Err, query_writer reports it
DecodeFails ==
    /\ pc = "await"
    /\ inflight' = inflight \ {idx}
    /\ outcomes' = Append(outcomes, "decode")
    /\ received' = Append(received, None)
    /\ UNCHANGED targets
    /\ writer' = writer \o QueryWriterErrLines(idx)
                        \o CallerLines(idx, QueryWriterReturn("Err"))
    /\ idx' = idx + 1
    /\ pc' = "loop"
    /\ UNCHANGED <<args, env, stdout, ret, stages, sourceKind, queries,
                   endpoint, stmts, posts>>

\* the response decodes: query_writer renders the table and the stats
ResponseOk ==
    /\ pc = "await"
    /\ \E resp \in Responses :
         /\ writer' = writer \o RenderLines(idx, resp)
                             \o CallerLines(idx, QueryWriterReturn("Ok"))
         /\ received' = Append(received, Some(resp))
    /\ UNCHANGED targets
    /\ inflight' = inflight \ {idx}
    /\ outcomes' = Append(outcomes, "ok")
    /\ idx' = idx + 1
    /\ pc' = "loop"
    /\ UNCHANGED <<args, env, stdout, ret, stages, sourceKind, queries,
                   endpoint, stmts, posts>>

\* the loop is exhausted: local_exec_match returns Ok(())
Finish ==
    /\ UNCHANGED <<targets, received>>
    /\ pc = "loop"
    /\ idx > Len(stmts)
    /\ ret' = "Ok"
    /\ pc' = "returned"
    /\ UNCHANGED <<args, env, writer, stdout, stages, sourceKind, queries,
                   endpoint, stmts, idx, posts, inflight, outcomes>>

Next ==
    \/ Exec
    \/ Precheck
    \/ ResolveSource
    \/ ResolveEndpoint
    \/ Submit
    \/ SendFails
    \/ DecodeFails
    \/ ResponseOk
    \/ Finish

Spec == Init /\ [][Next]_vars

\* the invocation has ended: it returned to its caller or it panicked
Ended == pc \in {"returned", "panicked"}

----------------------------------------------------------------------------
(* The splitter on its own, over every text up to MaxLen characters *)

Texts == UNION {[1..n -> Chars] : n \in 0..MaxLen}

SplitInit ==
    /\ pc = "split"
    /\ queries \in Texts
    /\ args = [wordsOk |-> TRUE, profile |-> None, query |-> None]
    /\ env = [pathExists |-> FALSE,
              status |-> [hasLocalConfigs |-> FALSE, queryConfigs |-> <<>>]]
    /\ writer = <<>>
    /\ stdout = <<>>
    /\ ret = "none"
    /\ stages = <<>>
    /\ sourceKind = "none"
    /\ endpoint = None
    /\ stmts = <<>>
    /\ idx = 0
    /\ posts = <<>>
    /\ inflight = {}
    /\ outcomes = <<>>
    /\ targets = <<>>
    /\ received = <<>>

\* the split, filter, map and collect of local_exec_match
SplitText ==
    /\ UNCHANGED <<targets, received>>
    /\ pc = "split"
    /\ stmts' = Split(queries)
    /\ pc' = "collected"
    /\ UNCHANGED <<args, env, writer, stdout, ret, stages, sourceKind,
                   queries, endpoint, idx, posts, inflight, outcomes>>

SplitNext == SplitText

SplitSpec == SplitInit /\ [][SplitNext]_vars

----------------------------------------------------------------------------
(* What the claims speak of *)

\* the lines of the writer of one kind written for statement i
LinesFor(i, kind) ==
    {k \in 1..Len(writer) : writer[k].stmt = i /\ writer[k].kind = kind}

\* the error lines of the writer, for a statement or not
ErrLines == {k \in 1..Len(writer) : writer[k].kind = "err"}

\* the table and stats lines written for statement i
RenderedFor(i) ==
    {k \in 1..Len(writer) :
        /\ writer[k].stmt = i
        /\ writer[k].what \in {"table", "stats"}}

\* s is the first Len(s) elements of t
IsPrefix(s, t) == Len(s) <= Len(t) /\ s = SubSeq(t, 1, Len(s))

\* the argument starts with http:// or https://
HasUrlPrefix(q) == StartsWith(q, Http) \/ StartsWith(q, Https)

\* the separator-free stretches of a text between two separators or text
\* ends, as <<first, last>> positions; the empty stretch has last = first - 1
Stretches(t) ==
    {se \in (1..Len(t) + 1) \X (0..Len(t)) :
        /\ se[1] <= se[2] + 1
        /\ se[1] = 1 \/ t[se[1] - 1] = ";"
        /\ se[2] = Len(t) \/ t[se[2] + 1] = ";"
        /\ \A k \in se[1]..se[2] : t[k] # ";"}

\* those that hold a character other than whitespace
NonBlankStretches(t) ==
    {se \in Stretches(t) : \E k \in se[1]..se[2] : ~IsWhitespace(t[k])}

----------------------------------------------------------------------------
(* C1 *)

\* C1: a transport failure of the POST of statement i is reported to the
\* writer as an error for i and every later statement is still submitted:
\* when the invocation has ended, each statement whose send failed has an
\* error line and every statement of the batch has been POSTed.
C1_TransportFailureIsolated ==
    Ended =>
        \A i \in 1..Len(outcomes) :
            outcomes[i] = "network" =>
                /\ LinesFor(i, "err") # {}
                /\ Len(posts) = Len(stmts)
                /\ pc = "returned"

----------------------------------------------------------------------------
(* C2 *)

----------------------------------------------------------------------------
(* C3 *)

\* C3: with no local configurations the precheck fails, one error is
\* written, nothing is POSTed and no source is resolved; and in every run
\* the precheck is the first stage, before the source resolution.
C3_PrecheckGates ==
    /\ stages # <<>> => stages[1] = "precheck"
    /\ ~HasLocalConfigs(env.status) =>
          /\ posts = <<>>
          /\ inflight = {}
          /\ sourceKind = "none"
          /\ queries = <<>>
          /\ stages \in {<<>>, <<"precheck">>}
          /\ stages = <<"precheck">> =>
                /\ pc = "returned"
                /\ ret = "Ok"
                /\ Cardinality(ErrLines) = 1
                /\ Len(writer) = 1

\* the precheck ran on a machine without local configurations
C3_Witness ==
    /\ ~HasLocalConfigs(env.status)
    /\ stages = <<"precheck">>
    /\ pc = "returned"
    /\ Cardinality(ErrLines) = 1

----------------------------------------------------------------------------
(* C4 *)

\* C4: the splitter yields one statement per stretch of the text that is
\* non-empty after trimming, in the order of the stretches, each the
\* stretch followed by one ';' and holding no other ';', none of them
\* empty or whitespace-only.
C4_SplitStatements ==
    pc = "collected" =>
        LET nb == NonBlankStretches(queries) IN
        /\ Len(stmts) = Cardinality(nb)
        /\ \A k \in 1..Len(stmts) :
              /\ \E se \in nb :
                    /\ Cardinality({o \in nb : o[1] < se[1]}) = k - 1
                    /\ stmts[k] = Append(SubSeq(queries, se[1], se[2]), ";")
              /\ Len(stmts[k]) >= 2
              /\ stmts[k][Len(stmts[k])] = ";"
              /\ \A j \in 1..Len(stmts[k]) - 1 : stmts[k][j] # ";"
              /\ \E j \in 1..Len(stmts[k]) : ~IsWhitespace(stmts[k][j])
                                              /\ stmts[k][j] # ";"

\* a text of three stretches, the middle one blank, gave two statements
C4_Witness ==
    /\ pc = "collected"
    /\ Len(stmts) = 2
    /\ Cardinality(Stretches(queries)) = 3
    /\ stmts[1] # stmts[2]

----------------------------------------------------------------------------
(* C5 *)

\* C5: statements are submitted one at a time in source order: at most one
\* request is in flight, a POST is issued only when every earlier round
\* trip has ended, and the bodies POSTed are a prefix of the splitter's
\* output for the resolved text.
C5_OneAtATimeInOrder ==
    /\ Cardinality(inflight) <= 1
    /\ Len(posts) = Len(outcomes) + Cardinality(inflight)
    /\ inflight # {} => inflight = {Len(posts)} /\ pc = "await"
    /\ IsPrefix(posts, Split(queries))

\* the second statement is in flight after the first round trip ended
C5_Witness ==
    /\ pc = "await"
    /\ Len(posts) = 2
    /\ Len(outcomes) = 1
    /\ inflight = {2}
    /\ posts[1] # posts[2]

----------------------------------------------------------------------------
(* C6 *)

\* C6: the source is resolved first match wins in the order file, URL,
\* literal: the file is read whenever the path exists, the URL is fetched
\* only when it does not and the argument has an http(s):// prefix, the
\* argument is the text only when neither holds; one branch per invocation.
C6_SourcePrecedence ==
    (sourceKind # "none" /\ args.query # None) =>
        LET q == args.query[1] IN
        /\ sourceKind \in {"file", "url", "literal"}
        /\ sourceKind = "file" <=> env.pathExists
        /\ sourceKind = "url" <=> (~env.pathExists /\ HasUrlPrefix(q))
        /\ sourceKind = "literal" <=> (~env.pathExists /\ ~HasUrlPrefix(q))
        /\ Cardinality({k \in 1..Len(stages) : stages[k] = "resolve"}) = 1
        /\ pc \notin {"resolve", "panicked"} =>
              queries = CASE sourceKind = "file" -> FromUtf8Lossy(FileBytes)
                          [] sourceKind = "url" -> UrlBody
                          [] sourceKind = "literal" -> q

\* an argument with an http:// prefix that names an existing path was read
\* as a file
C6_Witness ==
    /\ args.query = Some(UrlArg)
    /\ env.pathExists
    /\ sourceKind = "file"
    /\ queries = FromUtf8Lossy(FileBytes)
    /\ posts # <<>>

----------------------------------------------------------------------------
(* C7 *)

\* C7: invoked with no positional argument, the command reads standard
\* input and uses it as the source text: an invocation whose words parse,
\* whose profile is local and which has no positional argument reaches the
\* precheck, and when it resolves its source it reads standard input whole.
C7_StdinWhenNoArgument ==
    (Ended /\ args.wordsOk /\ ProfileValue(args) = "local"
           /\ args.query = None) =>
        /\ stages # <<>>
        /\ sourceKind \in {"none", "stdin"}
        /\ (sourceKind = "stdin" /\ pc = "returned" /\ ret = "Ok")
              => queries = StdinText

----------------------------------------------------------------------------
(* C8 *)

\* C8: a --profile value other than local is rejected with a message to
\* the user and nothing is attempted: no precheck, no source resolution,
\* no POST.
C8_ProfileRejected ==
    ProfileValue(args) # "local" =>
        /\ stages = <<>>
        /\ sourceKind = "none"
        /\ posts = <<>>
        /\ inflight = {}
        /\ pc \in {"start", "returned"}
        /\ pc = "returned" => (stdout # <<>> \/ ErrLines # {})

\* --profile remote ended with a message and nothing attempted
C8_Witness ==
    /\ args.wordsOk
    /\ args.profile = Some("remote")
    /\ args.query # None
    /\ pc = "returned"
    /\ stdout # <<>>
    /\ posts = <<>>

----------------------------------------------------------------------------
(* C9 *)

\* C9: the dispatcher returns Ok for every batch whose precheck and
\* endpoint resolution succeeded, whatever the outcomes of its statements:
\* an invocation that built its endpoint ends by returning Ok.
C9_ReturnsOkWhateverOutcomes ==
    (Ended /\ endpoint # None) => (pc = "returned" /\ ret = "Ok")

----------------------------------------------------------------------------
(* C10 *)

\* C10: no retry: every statement is POSTed at most once, and a statement
\* that failed has exactly one error line on the writer.
C10_NoRetryOneReport ==
    /\ Len(posts) <= Len(stmts)
    /\ IsPrefix(posts, stmts)
    /\ \A i \in 1..Len(outcomes) :
          outcomes[i] # "ok" => Cardinality(LinesFor(i, "err")) = 1

----------------------------------------------------------------------------
(* C11 *)

\* how many times a stage has run
TimesRun(stage) == Cardinality({k \in 1..Len(stages) : stages[k] = stage})

\* C11: the endpoint is resolved at most once per invocation, before the
\* first statement is submitted, and every POST of the batch goes to that
\* same URL with that same client.
C11_EndpointResolvedOnce ==
    /\ TimesRun("endpoint") <= 1
    /\ Len(targets) = Len(posts)
    /\ posts # <<>> =>
          /\ endpoint # None
          /\ TimesRun("endpoint") = 1
          /\ stages[Len(stages)] = "endpoint"
    /\ \A k \in 1..Len(targets) :
          /\ targets[k] = endpoint[1]
          /\ targets[k] = targets[1]

\* three statements were POSTed on a machine with two different local
\* query configurations
C11_Witness ==
    /\ Len(targets) = 3
    /\ env.status.queryConfigs = <<Plain, Other>>
    /\ pc = "returned"

----------------------------------------------------------------------------
(* C12 *)

\* the first local query configuration names a TLS key or certificate
TlsConfigured ==
    /\ env.status.queryConfigs # <<>>
    /\ \/ env.status.queryConfigs[1].api_tls_server_key # ""
       \/ env.status.queryConfigs[1].api_tls_server_cert # ""

\* the endpoint resolution failed with an error value: the dispatcher
\* reported it and returned
EndpointErrReported ==
    /\ pc = "returned"
    /\ endpoint = None
    /\ \E k \in ErrLines :
          writer[k].what = "Query command error: cannot parse query url"

\* C12: with a TLS key and/or certificate configured, the endpoint
\* resolution fails with an error value and never yields a plaintext URL.
C12_TlsNotImplemented ==
    (TlsConfigured /\ TimesRun("endpoint") = 1) =>
        /\ endpoint = None
        /\ posts = <<>>
        /\ EndpointErrReported

----------------------------------------------------------------------------
(* C13 *)

\* a stage of the invocation failed: the words or the arguments did not
\* parse, the invocation panicked or returned Err, a stage before the loop
\* ended it, or a statement's round trip failed
SomethingFailed ==
    \/ ~args.wordsOk
    \/ ~ClapMatches(args)
    \/ pc = "panicked"
    \/ ret = "Err"
    \/ endpoint = None
    \/ \E i \in 1..Len(outcomes) : outcomes[i] # "ok"

\* C13: no failure is silent: when an invocation has ended and a stage of
\* it failed, the writer holds an error line, and each statement whose
\* round trip failed has an error line of its own.
C13_NoSilentFailure ==
    Ended =>
        /\ SomethingFailed => ErrLines # {}
        /\ \A i \in 1..Len(outcomes) :
              outcomes[i] # "ok" => LinesFor(i, "err") # {}

----------------------------------------------------------------------------
(* C14 *)

\* the invocation ended in the precheck, the source resolution or the
\* endpoint resolution (an Err of the Status::read between the precheck and
\* the source resolution, which `?` hands to the caller, is left aside)
EndedBeforeLoop ==
    /\ Ended
    /\ stages # <<>>
    /\ endpoint = None
    /\ ret # "Err"

\* C14: a failure of the precheck, the source resolution or the endpoint
\* resolution ends the invocation with exactly one error line, no statement
\* submitted, and a return to the caller.
C14_PreLoopFailureReportedOnce ==
    EndedBeforeLoop =>
        /\ pc = "returned"
        /\ Cardinality(ErrLines) = 1
        /\ posts = <<>>

----------------------------------------------------------------------------
(* C15 *)

\* the first local query configuration names no TLS key and no certificate
NoTlsPaths ==
    /\ env.status.queryConfigs # <<>>
    /\ env.status.queryConfigs[1].api_tls_server_key = ""
    /\ env.status.queryConfigs[1].api_tls_server_cert = ""

\* the endpoint holds the URL http://h:p/v1/statement of the first local
\* query configuration, host and port as configured
UrlOfFirstConfig ==
    /\ endpoint # None
    /\ endpoint[1].url =
          [scheme |-> "http",
           host |-> env.status.queryConfigs[1].http_handler_host,
           port |-> env.status.queryConfigs[1].http_handler_port,
           path |-> "/v1/statement"]

----------------------------------------------------------------------------
(* C16 *)

\* the statements put one after the other
RECURSIVE Join(_)
Join(ss) == IF ss = <<>> THEN <<>> ELSE Head(ss) \o Join(Tail(ss))

\* C16: splitting the concatenation of the statements of a split gives the
\* same statements in the same order.
C16_SplitIdempotent ==
    pc = "collected" => Split(Join(stmts)) = stmts

\* two statements came out of a text that their concatenation differs from
C16_Witness ==
    /\ pc = "collected"
    /\ Len(stmts) = 2
    /\ Join(stmts) # queries
    /\ Split(Join(stmts)) = stmts

----------------------------------------------------------------------------
(* C17 *)

\* C17: when the endpoint resolution runs with no local query configuration
\* it fails with an error value that the dispatcher reports before any
\* statement, and the process is not aborted.
C17_NoQueryConfigReported ==
    (env.status.queryConfigs = <<>> /\ TimesRun("endpoint") = 1) =>
        /\ posts = <<>>
        /\ EndpointErrReported

----------------------------------------------------------------------------
(* C18 *)

\* the lines of one sort written for statement i
WhatFor(i, what) ==
    {k \in 1..Len(writer) : writer[k].stmt = i /\ writer[k].what = what}

\* the round trip of statement i succeeded with stats in zero milliseconds
ZeroElapsedWithStats(i) ==
    /\ received[i] # None
    /\ received[i][1].stats # None
    /\ received[i][1].elapsedMs = 0

\* C18: a statement that succeeds with stats in zero milliseconds has its
\* table rendered and no throughput line, no rate that is not a finite
\* number is written, and the loop goes on to the next statement.
C18_ZeroElapsedGuarded ==
    \A i \in 1..Len(received) :
        ZeroElapsedWithStats(i) =>
            /\ WhatFor(i, "table") # {}
            /\ WhatFor(i, "stats") = {}
            /\ pc # "panicked"

----------------------------------------------------------------------------
(* C19 *)

\* the statements whose outcome the writer should by now hold: every one
\* of the batch once the invocation has ended, else those whose round trip
\* has ended
Settled ==
    IF Ended /\ endpoint # None THEN 1..Len(stmts) ELSE 1..Len(outcomes)

\* C19: for every statement the writer holds either a table, followed by a
\* stats line exactly when the response carried stats, or an error line;
\* never both and never neither.
C19_TableOrError ==
    \A i \in Settled :
        /\ (WhatFor(i, "table") # {}) # (LinesFor(i, "err") # {})
        /\ WhatFor(i, "stats") # {} <=>
              /\ WhatFor(i, "table") # {}
              /\ i <= Len(received)
              /\ received[i] # None
              /\ received[i][1].stats # None
        /\ \A t \in WhatFor(i, "table"), k \in WhatFor(i, "stats") : t < k

====
